---- MODULE Spec2Model ----
(***************************************************************************)
(* State-machine model of the CAE automation portfolio:                    *)
(*   - SpallFractureSystem.run_analysis / SpallFractureResults.analyze     *)
(*     ("Spall Fracture Modeling System/spall_fracture_system.py")         *)
(*   - PostProcessingSystem field / history extraction                     *)
(*     (postprocessing_system.py)                                          *)
(*                                                                         *)
(* Velocities are fixed-point numbers in tenths of a m/s (2005 stands for  *)
(* 200.5 m/s), so that int(velocity) and the "velocity > 200" test keep    *)
(* their meaning on integers.                                              *)
(***************************************************************************)
EXTENDS Integers, Sequences, FiniteSets, TLC

VARIABLES
    ABAQUS_AVAILABLE,   \* module flag set by the import of the Abaqus API
    velocities,         \* run_analysis argument
    pc,                 \* position of run_analysis
    i,                  \* 1-based index of the velocity being processed
    analysis_results,   \* local list of per-velocity records
    velocity_result,    \* local: the record returned by _extract_results
    exc,                \* message of the exception in flight
    raised,             \* log of <<index, message>> of exceptions raised in the loop
    runs_started,       \* velocities for which _create_model_for_velocity was called
    jobs,               \* job names created by mdb.Job
    output_dir,         \* TRUE once os.makedirs(output_dir) has succeeded
    velocity_dirs,      \* velocity_<n> directories under output_dir
    documents,          \* results.json per velocity directory
    summary_report,     \* lines of summary_report.txt
    results,            \* the SpallFractureResults object handed to the caller
    analysis,           \* what results.analyze() returned to the caller
    analysis_params,    \* run_analysis argument: the caller's parameters
    default_params,     \* local of run_analysis, kept by the results object
    plot,               \* how results.plot_velocity_analysis() ended
    excel,              \* how results.export_to_excel() ended
    field_output,       \* frame.fieldOutputs[field_type].values of one raw frame
    component,          \* a component name of config["field_outputs"][field_type]
    frame_component,    \* frame_data[field_type][component] after the component loop
    history_output,     \* history_output.data of one raw history output
    history_series,     \* history_data[step_name][history_name] after extraction
    ODB_AVAILABLE,      \* module flag set by the import of the Abaqus ODB API
    odb,                \* the raw output database: odb.steps in discovery order
    config,             \* self.config of the PostProcessingSystem
    ppc,                \* position of process_odb_file
    odb_open,           \* TRUE between openOdb(odb_file) and odb.close()
    field_data,         \* local of process_odb_file
    history_data,       \* local of process_odb_file
    pexc,               \* message of the exception process_odb_file lets through
    artifacts,          \* files written by _save_results and _create_plots
    presults,           \* the PostProcessingResults object handed to the caller
    stats,              \* what presults.get_summary_statistics() returned
    previous,           \* the PostProcessingResults of the caller's previous call
    odb_files,          \* batch_process argument: the databases behind the paths
    bpc,                \* position of batch_process
    file_index,         \* 1-based index of the file being processed
    batch_results,      \* local list of batch_process: results or None per file
    batch_summary       \* counts written to batch_summary.txt

sweepVars == <<ABAQUS_AVAILABLE, velocities, pc, i, analysis_results,
               velocity_result, exc, raised, runs_started, jobs, output_dir,
               velocity_dirs, documents, summary_report, results, analysis,
               analysis_params, default_params, plot, excel>>

reduceVars == <<field_output, component, frame_component, history_output,
                history_series>>

extractVars == <<ODB_AVAILABLE, odb, config, ppc, odb_open, field_data,
                 history_data, pexc, artifacts, presults, stats, previous>>

postVars == <<reduceVars, extractVars>>

batchVars == <<odb_files, bpc, file_index, batch_results, batch_summary>>

vars == <<sweepVars, postVars, batchVars>>

-----------------------------------------------------------------------------
(* Bounds of the model *)

\* longest velocity list handed to run_analysis
MaxVelocities == 3

\* candidate impact velocities, in tenths of a m/s: 200.0, 200.5 and 250.0
VelocityValues == {2000, 2005, 2500}

\* values np.random.uniform(50, 150) may return for max_stress
MaxStressSamples == {60, 140}

\* value np.random.uniform(0.01, 0.05) may return for max_strain, in 1e-2
MaxStrainSamples == {3}

\* value np.random.uniform(50, 200) may return for fracture_time
FractureTimeSamples == {125}

\* longest list of raw values of a field output or of a history output
MaxValues == 2

\* steps of an output database
MaxSteps == 2

\* frames of an output database, over all its steps
MaxFrames == 3

\* files of a batch
MaxFiles == 2

\* raw numbers an output database holds
SampleValues == {0 - 2, 1, 3}

\* component names a raw field value may carry
ComponentNames == {"S11", "S22"}

\* messages of the exceptions the collaborators raise
CreateModelErrors == {"mesh generation error"}
RunCalculationErrors == {"job error"}
MakedirsErrors == {"makedirs error"}
OpenErrors == {"open error"}

-----------------------------------------------------------------------------
(* Values *)

\* Python's None, outside every numeric domain of the model
None == 0 - 1

NoExc == "no exception"

NoRecord == [status |-> "none"]

NoResults == [returned |-> FALSE]

NoAnalysis == [called |-> FALSE]

NoReport == [written |-> FALSE]

\* a mapping without keys
EmptyMap == [x \in {} |-> 0]

\* a method of the results object that has not been called
NotCalled == [called |-> FALSE]

RuntimeErrorMessage == "Abaqus API unavailable"

ValueErrorMessage == "min() arg is an empty sequence"

NoDataMessage == "no successful results"

\* the default_params literal: time_period in microseconds, element_size in
\* micrometres, contact_friction in hundredths
DefaultParams ==
    [time_period      |-> 300,
     element_size     |-> 500,
     contact_friction |-> 10,
     symmetry_planes  |-> <<"X", "Z">>,
     output_frequency |-> 100]

\* analysis_params a caller passes: none, single keys, a list-valued key, a
\* key the defaults do not have
AnalysisParams ==
    {EmptyMap,
     [time_period |-> 500],
     [symmetry_planes |-> <<"Y">>],
     [element_size |-> 1000, symmetry_planes |-> <<"Z">>],
     [mass_scaling |-> 4]}

\* a merge that descends into list values and joins them
update_deep(d, other) ==
    [k \in DOMAIN d \cup DOMAIN other |->
        IF k \notin DOMAIN other THEN d[k]
        ELSE IF k \in DOMAIN d /\ k = "symmetry_planes" THEN d[k] \o other[k]
        ELSE other[k]]

\* dict.update: d with every key of other set to other's value
update(d, other) ==
    [k \in DOMAIN d \cup DOMAIN other |->
        IF k \in DOMAIN other THEN other[k] ELSE d[k]]

\* int(velocity): truncation of a positive float
IntPart(velocity) == velocity \div 10

\* all sequences over S of length 0..n
SeqUpTo(S, n) == UNION {[1..k -> S] : k \in 0..n}

Range(s) == {s[k] : k \in DOMAIN s}

\* Python's min() / max() over a non-empty list of numbers
Min(s) == CHOOSE x \in Range(s) : \A y \in Range(s) : x <= y

Max(s) == CHOOSE x \in Range(s) : \A y \in Range(s) : x >= y

-----------------------------------------------------------------------------
(* PostProcessingSystem: reduction of raw samples *)

RECURSIVE Sum(_)
Sum(s) == IF Len(s) = 0 THEN 0 ELSE s[1] + Sum(Tail(s))

Abs(n) == IF n < 0 THEN 0 - n ELSE n

RECURSIVE GCD(_, _)
GCD(a, b) == IF b = 0 THEN a ELSE GCD(b, a % b)

\* the real number n / d (d > 0), in lowest terms
Fraction(n, d) ==
    LET g == GCD(Abs(n), d) IN [num |-> n \div g, den |-> d \div g]

\* np.mean(values) of a non-empty list
Mean(values) == Fraction(Sum(values), Len(values))

NotExtracted == [kind |-> "not extracted"]

Omitted == [kind |-> "omitted"]

Raised(error) == [kind |-> "raised", error |-> error]

\* lines 199-204: the dict stored under frame_data[field_type][component]
FieldSample(values) ==
    [kind   |-> "sample",
     values |-> values,
     max    |-> IF Len(values) > 0 THEN Max(values) ELSE 0,
     min    |-> IF Len(values) > 0 THEN Min(values) ELSE 0,
     mean   |-> IF Len(values) > 0 THEN Mean(values) ELSE Fraction(0, 1)]

\* a component loop that stores a sample of no values for an absent component
ExtractComponentZero(values, c) ==
    IF Len(values) = 0
    THEN Raised("IndexError")
    ELSE IF c \notin DOMAIN values[1]
         THEN FieldSample(<<>>)
         ELSE IF \E k \in DOMAIN values : c \notin DOMAIN values[k]
              THEN Raised("KeyError")
              ELSE FieldSample([k \in 1..Len(values) |-> values[k][c]])

\* lines 196-204: one pass of "for component in components" over the values
\* of a field output; field_output.values[0] of an empty list raises
\* IndexError, value.data[component] of a value without it raises KeyError
ExtractComponent(values, c) ==
    IF Len(values) = 0
    THEN Raised("IndexError")
    ELSE IF c \notin DOMAIN values[1]
         THEN Omitted
         ELSE IF \E k \in DOMAIN values : c \notin DOMAIN values[k]
              THEN Raised("KeyError")
              ELSE FieldSample([k \in 1..Len(values) |-> values[k][c]])

\* lines 230-239: the dict stored under history_data[step_name][history_name]
HistorySeries(data) ==
    LET times  == [k \in 1..Len(data) |-> data[k].time]
        values == [k \in 1..Len(data) |-> data[k].data]
    IN  [kind   |-> "series",
         times  |-> times,
         values |-> values,
         max    |-> IF Len(values) > 0 THEN Max(values) ELSE 0,
         min    |-> IF Len(values) > 0 THEN Min(values) ELSE 0,
         mean   |-> IF Len(values) > 0 THEN Mean(values) ELSE Fraction(0, 1)]

\* value.data of a raw field value: component name -> number
FieldValues == UNION {[D -> SampleValues] : D \in SUBSET ComponentNames}

\* history_output.data: (time, data) pairs at increasing times
HistoryData(n) ==
    {[k \in 1..n |-> [time |-> k, data |-> vs[k]]] : vs \in [1..n -> SampleValues]}

\* the component loop body applied to the field output of a frame
ExtractFieldComponent ==
    /\ frame_component = NotExtracted
    /\ frame_component' = ExtractComponent(field_output, component)
    /\ UNCHANGED <<field_output, component, history_output, history_series>>
    /\ UNCHANGED <<sweepVars, extractVars, batchVars>>

\* the history loop body applied to a history output of a step
ExtractHistoryOutput ==
    /\ history_series = NotExtracted
    /\ history_series' = HistorySeries(history_output)
    /\ UNCHANGED <<field_output, component, frame_component, history_output>>
    /\ UNCHANGED <<sweepVars, extractVars, batchVars>>

\* no reduction under way
ReduceIdle ==
    /\ field_output = <<>>
    /\ component = "S11"
    /\ frame_component = NotExtracted
    /\ history_output = <<>>
    /\ history_series = NotExtracted

-----------------------------------------------------------------------------
(* PostProcessingSystem: the extraction structure *)

\* a Python dict as the list of its items in insertion order
DictKeys(d) == {d[k].key : k \in DOMAIN d}

DictGet(d, key) == d[CHOOSE k \in DOMAIN d : d[k].key = key].value

DictValues(d) == [k \in DOMAIN d |-> d[k].value]

\* d[key] = value: a new key goes last, a known key keeps its place
DictSet(d, key, value) ==
    IF key \in DictKeys(d)
    THEN [k \in DOMAIN d |-> IF d[k].key = key
                              THEN [key |-> key, value |-> value] ELSE d[k]]
    ELSE Append(d, [key |-> key, value |-> value])

IsRaised(x) == "kind" \in DOMAIN x /\ x.kind = "raised"

\* a call that returned value
Returned(value) == [kind |-> "returned", value |-> value]

\* the (field_type, component) pairs the two config loops of lines 191-196
\* visit for a frame, in order
RECURSIVE VisitedPairs(_, _)
VisitedPairs(field_outputs, frame) ==
    IF Len(field_outputs) = 0 THEN <<>>
    ELSE LET field_type == field_outputs[1].key
             components == field_outputs[1].value
         IN  (IF field_type \in DOMAIN frame.fieldOutputs
              THEN [k \in 1..Len(components) |->
                       [field_type |-> field_type, component |-> components[k]]]
              ELSE <<>>)
             \o VisitedPairs(Tail(field_outputs), frame)

\* lines 188-206: the frame_data dict of one frame, or the exception raised
ExtractFrame(frame, field_outputs) ==
    LET pairs    == VisitedPairs(field_outputs, frame)
        entry(p) == ExtractComponent(frame.fieldOutputs[p.field_type], p.component)
        failing  == {k \in DOMAIN pairs : IsRaised(entry(pairs[k]))}
        present  == {field_outputs[k].key : k \in DOMAIN field_outputs}
                        \cap DOMAIN frame.fieldOutputs
        sampled(field_type) ==
            {pairs[k].component : k \in
                {n \in DOMAIN pairs : /\ pairs[n].field_type = field_type
                                       /\ entry(pairs[n]).kind = "sample"}}
    IN  IF failing # {}
        THEN entry(pairs[CHOOSE k \in failing : \A n \in failing : k <= n])
        ELSE [key \in present \cup {"time"} |->
                 IF key = "time" THEN frame.frameValue
                 ELSE [c \in sampled(key) |->
                          ExtractComponent(frame.fieldOutputs[key], c)]]

\* lines 184-207: field_data[step_name] of one step, or the exception raised
RECURSIVE ExtractFrames(_, _, _)
ExtractFrames(frames, field_outputs, step_data) ==
    IF Len(frames) = 0 THEN Returned(step_data)
    ELSE LET frame_data == ExtractFrame(frames[1], field_outputs)
         IN  IF IsRaised(frame_data) THEN frame_data
             ELSE ExtractFrames(Tail(frames), field_outputs,
                                DictSet(step_data, frames[1].frameValue, frame_data))

\* lines 173-209: _extract_field_data(odb): the field_data dict or the exception
RECURSIVE ExtractSteps(_, _, _)
ExtractSteps(steps, field_outputs, data) ==
    IF Len(steps) = 0 THEN Returned(data)
    ELSE LET step_data == ExtractFrames(steps[1].frames, field_outputs, <<>>)
         IN  IF IsRaised(step_data) THEN step_data
             ELSE ExtractSteps(Tail(steps), field_outputs,
                               DictSet(data, steps[1].name, step_data.value))

_extract_field_data(o, cfg) == ExtractSteps(o, cfg.field_outputs, <<>>)

\* lines 220-239: history_data[step_name] of one step
StepHistory(step, history_outputs) ==
    LET extracted ==
            {k \in DOMAIN history_outputs :
                /\ history_outputs[k].key \in DOMAIN step.historyRegions
                /\ history_outputs[k].value \in
                       DOMAIN step.historyRegions[history_outputs[k].key]}
    IN  [history_name \in {history_outputs[k].key : k \in extracted} |->
            HistorySeries(step.historyRegions[history_name]
                              [DictGet(history_outputs, history_name)])]

\* lines 215-241: _extract_history_data(odb)
RECURSIVE ExtractHistories(_, _, _)
ExtractHistories(steps, history_outputs, data) ==
    IF Len(steps) = 0 THEN data
    ELSE ExtractHistories(Tail(steps), history_outputs,
                          DictSet(data, steps[1].name,
                                  StepHistory(steps[1], history_outputs)))

_extract_history_data(o, cfg) == ExtractHistories(o, cfg.history_outputs, <<>>)

-----------------------------------------------------------------------------
(* PostProcessingResults *)

\* PostProcessingResults(odb_file, field_data, history_data, output_dir, config)
PostProcessingResults(fd, hd, cfg) ==
    [returned |-> TRUE, field_data |-> fd, history_data |-> hd, config |-> cfg]

\* the 'max' of every component of field_type in every frame of every step
ComponentMaxima(fd, field_type) ==
    UNION {UNION {{frame_data[field_type][c].max : c \in DOMAIN frame_data[field_type]} :
                    frame_data \in {x \in Range(DictValues(step_data)) :
                                        field_type \in DOMAIN x}} :
             step_data \in Range(DictValues(fd))}

\* the running maximum of lines 695-702, which starts from 0
RunningMax(start, S) == CHOOSE m \in S \cup {start} : \A x \in S \cup {start} : x <= m

get_max_stress(self) == RunningMax(0, ComponentMaxima(self.field_data, "stress"))

get_max_strain(self) == RunningMax(0, ComponentMaxima(self.field_data, "strain"))

\* a frame count that looks at the first step only
TotalFramesFirstStep(fd) == IF Len(fd) = 0 THEN 0 ELSE Len(fd[1].value)

\* sum(len(step_data) for step_data in self.field_data.values())
RECURSIVE TotalFrames(_)
TotalFrames(fd) ==
    IF Len(fd) = 0 THEN 0 ELSE Len(fd[1].value) + TotalFrames(Tail(fd))

get_summary_statistics(self) ==
    [called       |-> TRUE,
     num_steps    |-> Len(self.field_data),
     max_stress   |-> get_max_stress(self),
     max_strain   |-> get_max_strain(self),
     total_frames |-> TotalFrames(self.field_data)]

-----------------------------------------------------------------------------
(* PostProcessingSystem.process_odb_file *)

NoPResults == [returned |-> FALSE]

NoStats == [called |-> FALSE]

OdbErrorMessage == "Abaqus ODB API unavailable"

OpenOdbErrors == {"openOdb error"}

SaveErrors == {"save error"}

PlotErrors == {"plot error"}

\* an exception leaves process_odb_file (line 124, or the re-raise of line 167)
PRaise(message) ==
    /\ ppc' = "raised"
    /\ pexc' = message

\* lines 123-137: availability check, output directory, openOdb
OpenOdb ==
    /\ ppc = "start"
    /\ IF ~ODB_AVAILABLE
       THEN PRaise(OdbErrorMessage) /\ UNCHANGED odb_open
       ELSE \/ \E message \in MakedirsErrors \cup OpenOdbErrors :
                 PRaise(message) /\ UNCHANGED odb_open
            \/ /\ odb_open' = TRUE
               /\ ppc' = "extract_field_data"
               /\ UNCHANGED pexc
    /\ UNCHANGED <<ODB_AVAILABLE, odb, config, field_data, history_data,
                   artifacts, presults, stats, previous>>
    /\ UNCHANGED <<sweepVars, reduceVars, batchVars>>

\* an extraction that uses up the configured field outputs as it reads them
ExtractFieldDataConsuming ==
    /\ ppc = "extract_field_data"
    /\ LET data == _extract_field_data(odb, config)
       IN  IF IsRaised(data)
           THEN PRaise(data.error) /\ UNCHANGED <<field_data, config>>
           ELSE /\ field_data' = data.value
                /\ config' = [config EXCEPT !.field_outputs = <<>>]
                /\ ppc' = "extract_history_data"
                /\ UNCHANGED pexc
    /\ UNCHANGED <<ODB_AVAILABLE, odb, odb_open, history_data,
                   artifacts, presults, stats, previous>>
    /\ UNCHANGED <<sweepVars, reduceVars, batchVars>>

\* line 140: field_data = self._extract_field_data(odb)
ExtractFieldData ==
    /\ ppc = "extract_field_data"
    /\ LET data == _extract_field_data(odb, config)
       IN  IF IsRaised(data)
           THEN PRaise(data.error) /\ UNCHANGED field_data
           ELSE /\ field_data' = data.value
                /\ ppc' = "extract_history_data"
                /\ UNCHANGED pexc
    /\ UNCHANGED <<ODB_AVAILABLE, odb, config, odb_open, history_data,
                   artifacts, presults, stats, previous>>
    /\ UNCHANGED <<sweepVars, reduceVars, batchVars>>

\* line 141: history_data = self._extract_history_data(odb)
ExtractHistoryData ==
    /\ ppc = "extract_history_data"
    /\ history_data' = _extract_history_data(odb, config)
    /\ ppc' = "save_results"
    /\ UNCHANGED <<ODB_AVAILABLE, odb, config, odb_open, field_data, pexc,
                   artifacts, presults, stats, previous>>
    /\ UNCHANGED <<sweepVars, reduceVars, batchVars>>

\* line 153: self._save_results(results): extracted_data.json, then results.xlsx
SaveResults ==
    /\ ppc = "save_results"
    /\ \/ /\ artifacts' = artifacts \cup {"extracted_data.json", "results.xlsx"}
          /\ ppc' = "create_plots"
          /\ UNCHANGED pexc
       \/ /\ \E message \in SaveErrors : PRaise(message)
          /\ \/ UNCHANGED artifacts
             \/ artifacts' = artifacts \cup {"extracted_data.json"}
    /\ UNCHANGED <<ODB_AVAILABLE, odb, config, odb_open, field_data,
                   history_data, presults, stats, previous>>
    /\ UNCHANGED <<sweepVars, reduceVars, batchVars>>

\* lines 156-163: self._create_plots(results); odb.close(); return results
CreatePlots ==
    /\ ppc = "create_plots"
    /\ \/ /\ artifacts' = artifacts \cup {"plots"}
          /\ odb_open' = FALSE
          /\ presults' = PostProcessingResults(field_data, history_data, config)
          /\ ppc' = "returned"
          /\ UNCHANGED pexc
       \/ /\ \E message \in PlotErrors : PRaise(message)
          /\ UNCHANGED <<artifacts, odb_open, presults>>
    /\ UNCHANGED <<ODB_AVAILABLE, odb, config, field_data, history_data,
                   stats, previous>>
    /\ UNCHANGED <<sweepVars, reduceVars, batchVars>>

\* the caller's "stats = results.get_summary_statistics()"
GetSummaryStatistics ==
    /\ ppc = "returned"
    /\ ~stats.called
    /\ stats' = get_summary_statistics(presults)
    /\ UNCHANGED <<ODB_AVAILABLE, odb, config, ppc, odb_open, field_data,
                   history_data, pexc, artifacts, presults, previous>>
    /\ UNCHANGED <<sweepVars, reduceVars, batchVars>>

\* the caller keeps the results and calls process_odb_file on the same file again
ProcessAgain ==
    /\ ppc = "returned"
    /\ ~stats.called
    /\ ~previous.returned
    /\ previous' = presults
    /\ presults' = NoPResults
    /\ field_data' = <<>>
    /\ history_data' = <<>>
    /\ ppc' = "start"
    /\ UNCHANGED <<ODB_AVAILABLE, odb, config, odb_open, pexc, artifacts, stats>>
    /\ UNCHANGED <<sweepVars, reduceVars, batchVars>>

\* no process_odb_file call under way
ExtractIdle ==
    /\ ODB_AVAILABLE = FALSE
    /\ odb = <<>>
    /\ config = [field_outputs |-> <<>>, history_outputs |-> <<>>]
    /\ ppc = "idle"
    /\ odb_open = FALSE
    /\ field_data = <<>>
    /\ history_data = <<>>
    /\ pexc = NoExc
    /\ artifacts = {}
    /\ presults = NoPResults
    /\ stats = NoStats
    /\ previous = NoPResults

\* no batch_process call under way
BatchIdle ==
    /\ odb_files = <<>>
    /\ bpc = "idle"
    /\ file_index = 0
    /\ batch_results = <<>>
    /\ batch_summary = NoReport

PostIdle == ReduceIdle /\ ExtractIdle /\ BatchIdle

-----------------------------------------------------------------------------
(* SpallFractureSystem: records *)

\* the literal 200 of "velocity > 200", in tenths of a m/s
FractureThreshold == 200 * 10

\* mutant: the threshold itself counts as fracture
FractureOccurredInclusive(velocity) == velocity >= FractureThreshold

\* "fracture_occurred": velocity > 200
FractureOccurred(velocity) == velocity > FractureThreshold

\* job_name = f'SpallJob_v{int(velocity)}'
JobName(velocity) == IntPart(velocity)

\* the directory f'velocity_{int(velocity)}' of _save_velocity_results
VelocityDir(velocity) == IntPart(velocity)

\* the dict _extract_results returns
_extract_results(velocity, max_stress, max_strain, fracture_time) ==
    [velocity          |-> velocity,
     status            |-> "completed",
     max_stress        |-> max_stress,
     max_strain        |-> max_strain,
     fracture_time     |-> fracture_time,
     fracture_occurred |-> FractureOccurred(velocity),
     job_name          |-> JobName(velocity)]

\* a failure record that also carries a zero stress
FailedRecordWithStress(velocity, e) ==
    [velocity |-> velocity, status |-> "failed", error |-> e, max_stress |-> 0]

\* the dict the except branch of run_analysis appends
FailedRecord(velocity, e) ==
    [velocity |-> velocity, status |-> "failed", error |-> e]

\* SpallFractureResults(velocities, results, output_dir, analysis_params)
SpallFractureResults(vs, rs) ==
    [returned |-> TRUE, velocities |-> vs, results |-> rs]

-----------------------------------------------------------------------------
(* SpallFractureResults.analyze *)

IsCompleted(r) == r.status = "completed"

Fractured(r) == r.fracture_occurred

\* a filter for the no-fracture list that lets every completed record through
NotFracturedAny(r) == TRUE

NotFractured(r) == ~r.fracture_occurred

VelocitiesOf(rs) == [k \in 1..Len(rs) |-> rs[k].velocity]

\* the stress of the first record only
StressesOfFirst(rs) == <<rs[1].max_stress>>

StressesOf(rs) == [k \in 1..Len(rs) |-> rs[k].max_stress]

\* mutant: the first fracturing velocity instead of the smallest
CriticalVelocityFirst(fracture_velocities) ==
    IF Len(fracture_velocities) > 0 THEN fracture_velocities[1] ELSE None

\* min(fracture_velocities) if fracture_velocities else None
CriticalVelocity(fracture_velocities) ==
    IF Len(fracture_velocities) > 0 THEN Min(fracture_velocities) ELSE None

analyze(self) ==
    LET successful_results     == SelectSeq(self.results, IsCompleted)
        fracture_velocities    == VelocitiesOf(SelectSeq(successful_results, Fractured))
        no_fracture_velocities == VelocitiesOf(SelectSeq(successful_results, NotFractured))
        critical_velocity      == CriticalVelocity(fracture_velocities)
    IN  IF Len(successful_results) = 0
        THEN [called |-> TRUE, error |-> NoDataMessage]
        ELSE [called                 |-> TRUE,
              total_velocities       |-> Len(self.velocities),
              successful_calculations |-> Len(successful_results),
              failed_calculations    |-> Len(self.results) - Len(successful_results),
              critical_velocity      |-> critical_velocity,
              fracture_velocities    |-> fracture_velocities,
              no_fracture_velocities |-> no_fracture_velocities,
              max_stress_range       |->
                  [min |-> Min(StressesOf(successful_results)),
                   max |-> Max(StressesOf(successful_results))]]

-----------------------------------------------------------------------------
(* SpallFractureSystem._generate_summary_report *)

ReportLine(result) ==
    IF result.status = "completed"
    THEN [velocity   |-> result.velocity,
          max_stress |-> result.max_stress,
          fracture   |-> IF result.fracture_occurred THEN "yes" ELSE "no"]
    ELSE [velocity |-> result.velocity, error |-> result.error]

ReportLines(rs) == [k \in 1..Len(rs) |-> ReportLine(rs[k])]

-----------------------------------------------------------------------------
(* SpallFractureSystem.run_analysis *)

\* a loop head that leaves the loop one velocity early
LoopNextEarly(k) == IF k < Len(velocities) THEN "create_model" ELSE "report"

\* the head of "for i, velocity in enumerate(velocities, 1)"
LoopNext(k) == IF k <= Len(velocities) THEN "create_model" ELSE "report"

\* raise out of run_analysis
Propagate(message) ==
    /\ pc' = "raised"
    /\ exc' = message

\* raise inside the try block of the loop
RaiseInLoop(message) ==
    /\ pc' = "except"
    /\ exc' = message
    /\ raised' = Append(raised, <<i, message>>)

\* lines 125-134: the defaults, overridden by the caller's parameters if any
MergeParams ==
    default_params' = IF DOMAIN analysis_params # {}
                      THEN update(DefaultParams, analysis_params)
                      ELSE DefaultParams

\* lines 136-144: os.makedirs(output_dir, exist_ok=True); analysis_results = []
MakeOutputDir ==
    \/ /\ output_dir' = TRUE
       /\ analysis_results' = <<>>
       /\ i' = 1
       /\ pc' = LoopNext(1)
       /\ UNCHANGED exc
    \/ /\ \E message \in MakedirsErrors : Propagate(message)
       /\ UNCHANGED <<output_dir, analysis_results, i>>

\* mutant: the availability check is missing
StartUnchecked ==
    /\ pc = "start"
    /\ MergeParams
    /\ MakeOutputDir
    /\ UNCHANGED <<ABAQUS_AVAILABLE, velocities, velocity_result, raised,
                   runs_started, jobs, velocity_dirs, documents,
                   summary_report, results, analysis>>
    /\ UNCHANGED <<analysis_params, plot, excel>>
    /\ UNCHANGED <<postVars, batchVars>>

\* lines 117-144: the availability check, then the preparation of the sweep
Start ==
    /\ pc = "start"
    /\ IF ~ABAQUS_AVAILABLE
       THEN /\ Propagate(RuntimeErrorMessage)
            /\ UNCHANGED <<output_dir, analysis_results, i, default_params>>
       ELSE MergeParams /\ MakeOutputDir
    /\ UNCHANGED <<ABAQUS_AVAILABLE, velocities, velocity_result, raised,
                   runs_started, jobs, velocity_dirs, documents,
                   summary_report, results, analysis>>
    /\ UNCHANGED <<analysis_params, plot, excel>>
    /\ UNCHANGED <<postVars, batchVars>>

\* line 151: model_result = self._create_model_for_velocity(velocity, default_params)
CreateModel ==
    /\ pc = "create_model"
    /\ runs_started' = Append(runs_started, velocities[i])
    /\ \/ /\ pc' = "run_calculation"
          /\ UNCHANGED <<exc, raised>>
       \/ \E message \in CreateModelErrors : RaiseInLoop(message)
    /\ UNCHANGED <<ABAQUS_AVAILABLE, velocities, i, analysis_results,
                   velocity_result, jobs, output_dir, velocity_dirs, documents,
                   summary_report, results, analysis>>
    /\ UNCHANGED <<analysis_params, default_params, plot, excel>>
    /\ UNCHANGED <<postVars, batchVars>>

\* line 154: job_result = self._run_calculation(velocity, model_result)
RunCalculation ==
    /\ pc = "run_calculation"
    /\ \/ /\ jobs' = Append(jobs, JobName(velocities[i]))
          /\ pc' = "extract_results"
          /\ UNCHANGED <<exc, raised>>
       \/ /\ \E message \in RunCalculationErrors : RaiseInLoop(message)
          /\ \/ jobs' = jobs                                   \* mdb.Job raised
             \/ jobs' = Append(jobs, JobName(velocities[i]))   \* mdb.saveAs raised
    /\ UNCHANGED <<ABAQUS_AVAILABLE, velocities, i, analysis_results,
                   velocity_result, runs_started, output_dir, velocity_dirs,
                   documents, summary_report, results, analysis>>
    /\ UNCHANGED <<analysis_params, default_params, plot, excel>>
    /\ UNCHANGED <<postVars, batchVars>>

\* lines 157-158: velocity_result = self._extract_results(...); append
ExtractResults ==
    /\ pc = "extract_results"
    /\ \E max_stress \in MaxStressSamples, max_strain \in MaxStrainSamples,
          fracture_time \in FractureTimeSamples :
          velocity_result' = _extract_results(velocities[i], max_stress,
                                              max_strain, fracture_time)
    /\ analysis_results' = Append(analysis_results, velocity_result')
    /\ pc' = "save"
    /\ UNCHANGED <<ABAQUS_AVAILABLE, velocities, i, exc, raised, runs_started,
                   jobs, output_dir, velocity_dirs, documents, summary_report,
                   results, analysis>>
    /\ UNCHANGED <<analysis_params, default_params, plot, excel>>
    /\ UNCHANGED <<postVars, batchVars>>

\* mutant: every velocity is written to one shared document store
WriteDocumentShared(docs, dir, result) == [d \in {dir} |-> result]

\* json.dump(result, f) into <velocity_dir>/results.json
WriteDocument(docs, dir, result) ==
    [d \in DOMAIN docs \cup {dir} |-> IF d = dir THEN result ELSE docs[d]]

\* line 161: self._save_velocity_results(velocity, velocity_result, output_dir)
SaveVelocityResults ==
    /\ pc = "save"
    /\ \/ /\ velocity_dirs' = velocity_dirs \cup {VelocityDir(velocities[i])}
          /\ documents' = WriteDocument(documents, VelocityDir(velocities[i]),
                                        velocity_result)
          /\ i' = i + 1
          /\ pc' = LoopNext(i + 1)
          /\ UNCHANGED <<exc, raised>>
       \/ /\ \E message \in MakedirsErrors : RaiseInLoop(message)
          /\ UNCHANGED <<velocity_dirs, documents, i>>
       \/ /\ \E message \in OpenErrors : RaiseInLoop(message)
          /\ velocity_dirs' = velocity_dirs \cup {VelocityDir(velocities[i])}
          /\ UNCHANGED <<documents, i>>
    /\ UNCHANGED <<ABAQUS_AVAILABLE, velocities, analysis_results,
                   velocity_result, runs_started, jobs, output_dir,
                   summary_report, results, analysis>>
    /\ UNCHANGED <<analysis_params, default_params, plot, excel>>
    /\ UNCHANGED <<postVars, batchVars>>

\* mutant: the handler records the failure and leaves the loop
ExceptHandlerBreak ==
    /\ pc = "except"
    /\ analysis_results' = Append(analysis_results, FailedRecord(velocities[i], exc))
    /\ exc' = NoExc
    /\ i' = i + 1
    /\ pc' = "report"
    /\ UNCHANGED <<ABAQUS_AVAILABLE, velocities, velocity_result, raised,
                   runs_started, jobs, output_dir, velocity_dirs, documents,
                   summary_report, results, analysis>>
    /\ UNCHANGED <<analysis_params, default_params, plot, excel>>
    /\ UNCHANGED <<postVars, batchVars>>

\* lines 165-171: except Exception as e: analysis_results.append({... "failed" ...})
ExceptHandler ==
    /\ pc = "except"
    /\ analysis_results' = Append(analysis_results, FailedRecord(velocities[i], exc))
    /\ exc' = NoExc
    /\ i' = i + 1
    /\ pc' = LoopNext(i + 1)
    /\ UNCHANGED <<ABAQUS_AVAILABLE, velocities, velocity_result, raised,
                   runs_started, jobs, output_dir, velocity_dirs, documents,
                   summary_report, results, analysis>>
    /\ UNCHANGED <<analysis_params, default_params, plot, excel>>
    /\ UNCHANGED <<postVars, batchVars>>

\* lines 173-187: build the results object, write the summary report, return
GenerateSummaryReport ==
    /\ pc = "report"
    /\ \/ /\ \E message \in OpenErrors : Propagate(message)
          /\ UNCHANGED <<summary_report, results>>
       \/ /\ Len(velocities) = 0            \* min(results.velocities) raises
          /\ Propagate(ValueErrorMessage)
          /\ summary_report' = [written |-> TRUE, complete |-> FALSE, lines |-> <<>>]
          /\ UNCHANGED results
       \/ /\ Len(velocities) > 0
          /\ summary_report' = [written |-> TRUE, complete |-> TRUE,
                                lines |-> ReportLines(analysis_results)]
          /\ results' = SpallFractureResults(velocities, analysis_results)
          /\ pc' = "returned"
          /\ UNCHANGED exc
    /\ UNCHANGED <<ABAQUS_AVAILABLE, velocities, i, analysis_results,
                   velocity_result, raised, runs_started, jobs, output_dir,
                   velocity_dirs, documents, analysis>>
    /\ UNCHANGED <<analysis_params, default_params, plot, excel>>
    /\ UNCHANGED <<postVars, batchVars>>

\* the caller's "analysis = results.analyze()"
Analyze ==
    /\ pc = "returned"
    /\ ~analysis.called
    /\ analysis' = analyze(results)
    /\ UNCHANGED <<ABAQUS_AVAILABLE, velocities, pc, i, analysis_results,
                   velocity_result, exc, raised, runs_started, jobs, output_dir,
                   velocity_dirs, documents, summary_report, results>>
    /\ UNCHANGED <<analysis_params, default_params, plot, excel>>
    /\ UNCHANGED <<postVars, batchVars>>

\* how a call of a results method ended
Outcome(available, outcome) ==
    [called |-> TRUE, available |-> available, outcome |-> outcome]

SavefigErrors == {"savefig error"}

ExcelErrors == {"to_excel error"}

\* lines 585-633: results.plot_velocity_analysis(save_path); matplotlib is
\* imported inside the try block
PlotVelocityAnalysis ==
    /\ pc = "returned"
    /\ ~plot.called
    /\ \E available \in BOOLEAN :
          IF ~available
          THEN plot' = Outcome(FALSE, "skipped")
          ELSE IF Len(SelectSeq(results.results, IsCompleted)) = 0
               THEN plot' = Outcome(TRUE, "no data")
               ELSE \/ plot' = Outcome(TRUE, "saved")
                    \/ \E message \in SavefigErrors : plot' = Outcome(TRUE, "raised")
    /\ UNCHANGED <<ABAQUS_AVAILABLE, velocities, pc, i, analysis_results,
                   velocity_result, exc, raised, runs_started, jobs, output_dir,
                   velocity_dirs, documents, summary_report, results, analysis>>
    /\ UNCHANGED <<analysis_params, default_params, excel>>
    /\ UNCHANGED <<postVars, batchVars>>

\* a record with the defaults of the export row written back into it
WithRowDefaults(r) ==
    IF "max_stress" \in DOMAIN r THEN r
    ELSE [velocity |-> r.velocity, status |-> r.status, error |-> r.error,
          max_stress |-> 0]

\* an export that writes the row defaults back into the records before it
\* looks for pandas
ExportToExcelFilling ==
    /\ pc = "returned"
    /\ ~excel.called
    /\ results' = [results EXCEPT !.results =
                      [k \in DOMAIN results.results |->
                          WithRowDefaults(results.results[k])]]
    /\ \E available \in BOOLEAN :
          IF ~available
          THEN excel' = Outcome(FALSE, "skipped")
          ELSE \/ excel' = Outcome(TRUE, "saved")
               \/ excel' = Outcome(TRUE, "skipped")
               \/ \E message \in ExcelErrors : excel' = Outcome(TRUE, "raised")
    /\ UNCHANGED <<ABAQUS_AVAILABLE, velocities, pc, i, analysis_results,
                   velocity_result, exc, raised, runs_started, jobs, output_dir,
                   velocity_dirs, documents, summary_report, analysis>>
    /\ UNCHANGED <<analysis_params, default_params, plot>>
    /\ UNCHANGED <<postVars, batchVars>>

\* lines 635-661: results.export_to_excel(filename); pandas is imported inside
\* the try block, and an ImportError of df.to_excel (no Excel engine) is
\* caught like a missing pandas
ExportToExcel ==
    /\ pc = "returned"
    /\ ~excel.called
    /\ \E available \in BOOLEAN :
          IF ~available
          THEN excel' = Outcome(FALSE, "skipped")
          ELSE \/ excel' = Outcome(TRUE, "saved")
               \/ excel' = Outcome(TRUE, "skipped")
               \/ \E message \in ExcelErrors : excel' = Outcome(TRUE, "raised")
    /\ UNCHANGED <<ABAQUS_AVAILABLE, velocities, pc, i, analysis_results,
                   velocity_result, exc, raised, runs_started, jobs, output_dir,
                   velocity_dirs, documents, summary_report, results, analysis>>
    /\ UNCHANGED <<analysis_params, default_params, plot>>
    /\ UNCHANGED <<postVars, batchVars>>

Init ==
    /\ ABAQUS_AVAILABLE \in BOOLEAN
    /\ velocities \in SeqUpTo(VelocityValues, MaxVelocities)
    /\ pc = "start"
    /\ i = 0
    /\ analysis_results = <<>>
    /\ velocity_result = NoRecord
    /\ exc = NoExc
    /\ raised = <<>>
    /\ runs_started = <<>>
    /\ jobs = <<>>
    /\ output_dir = FALSE
    /\ velocity_dirs = {}
    /\ documents = <<>>
    /\ summary_report = NoReport
    /\ results = NoResults
    /\ analysis = NoAnalysis
    /\ analysis_params \in (IF Len(velocities) <= 1 THEN AnalysisParams ELSE {EmptyMap})
    /\ default_params = EmptyMap
    /\ plot = NotCalled
    /\ excel = NotCalled
    /\ PostIdle

Next ==
    \/ Start
    \/ CreateModel
    \/ RunCalculation
    \/ ExtractResults
    \/ SaveVelocityResults
    \/ ExceptHandler
    \/ GenerateSummaryReport
    \/ Analyze

Spec == Init /\ [][Next]_vars

-----------------------------------------------------------------------------
(* analyze() on a results object the caller builds itself, as                *)
(* batch_processing_example does: velocities are the records' velocities.    *)

\* records a caller may hand to SpallFractureResults
AnyRecords ==
    {[velocity |-> v, status |-> "completed", max_stress |-> s, max_strain |-> e,
      fracture_time |-> t, fracture_occurred |-> f, job_name |-> JobName(v)] :
        v \in VelocityValues, s \in MaxStressSamples, e \in MaxStrainSamples,
        t \in FractureTimeSamples, f \in BOOLEAN}
    \cup {FailedRecord(v, e) :
             v \in VelocityValues, e \in CreateModelErrors \cup RunCalculationErrors}

InitAnalyze ==
    /\ ABAQUS_AVAILABLE = TRUE
    /\ \E rs \in SeqUpTo(AnyRecords, MaxVelocities) :
          /\ velocities = VelocitiesOf(rs)
          /\ analysis_results = rs
          /\ results = SpallFractureResults(VelocitiesOf(rs), rs)
    /\ pc = "returned"
    /\ i = 0
    /\ velocity_result = NoRecord
    /\ exc = NoExc
    /\ raised = <<>>
    /\ runs_started = <<>>
    /\ jobs = <<>>
    /\ output_dir = FALSE
    /\ velocity_dirs = {}
    /\ documents = <<>>
    /\ summary_report = NoReport
    /\ analysis = NoAnalysis
    /\ analysis_params = EmptyMap
    /\ default_params = EmptyMap
    /\ plot = NotCalled
    /\ excel = NotCalled
    /\ PostIdle

NextAnalyze ==
    \/ Analyze
    \/ PlotVelocityAnalysis
    \/ ExportToExcel

SpecAnalyze == InitAnalyze /\ [][NextAnalyze]_vars

-----------------------------------------------------------------------------
(* Reduction of the raw values of one field output and one history output *)

\* no sweep under way
SweepIdle ==
    /\ ABAQUS_AVAILABLE = FALSE
    /\ velocities = <<>>
    /\ pc = "idle"
    /\ i = 0
    /\ analysis_results = <<>>
    /\ velocity_result = NoRecord
    /\ exc = NoExc
    /\ raised = <<>>
    /\ runs_started = <<>>
    /\ jobs = <<>>
    /\ output_dir = FALSE
    /\ velocity_dirs = {}
    /\ documents = <<>>
    /\ summary_report = NoReport
    /\ results = NoResults
    /\ analysis = NoAnalysis
    /\ analysis_params = EmptyMap
    /\ default_params = EmptyMap
    /\ plot = NotCalled
    /\ excel = NotCalled

InitReduce ==
    /\ SweepIdle
    /\ ExtractIdle
    /\ BatchIdle
    /\ field_output \in SeqUpTo(FieldValues, MaxValues)
    /\ component \in ComponentNames
    /\ frame_component = NotExtracted
    /\ history_output \in UNION {HistoryData(n) : n \in 0..MaxValues}
    /\ history_series = NotExtracted

NextReduce ==
    \/ ExtractFieldComponent
    \/ ExtractHistoryOutput

SpecReduce == InitReduce /\ [][NextReduce]_vars

-----------------------------------------------------------------------------
(* process_odb_file on output databases of a few steps and frames *)

\* self.default_config, cut down to two field types and one history output
default_config ==
    [field_outputs   |-> <<[key |-> "stress", value |-> <<"S11", "S22">>],
                           [key |-> "strain", value |-> <<"E11">>]>>,
     history_outputs |-> <<[key |-> "kinetic_energy", value |-> "KE"]>>]

\* a caller's config: one stress component, nothing else
StressOnlyConfig ==
    [field_outputs   |-> <<[key |-> "stress", value |-> <<"S11">>]>>,
     history_outputs |-> <<>>]

\* self.config = config or self.default_config
Configs == {default_config, StressOnlyConfig}

\* frame.frameValue
FrameValues == {0, 1}

\* frame.fieldOutputs of the frames of a multi-step database
StepFieldOutputs ==
    {[stress |-> <<[S11 |-> 0 - 2]>>],
     [stress |-> <<[S11 |-> 3, S22 |-> 1], [S11 |-> 1, S22 |-> 1]>>,
      strain |-> <<[E11 |-> 1]>>]}

StepFrames ==
    {[frameValue |-> t, fieldOutputs |-> f] : t \in FrameValues, f \in StepFieldOutputs}

\* step.historyRegions: region name -> output name -> history_output.data
HistoryRegions ==
    {EmptyMap, [kinetic_energy |-> [KE |-> <<[time |-> 1, data |-> 3]>>]]}

\* the ways of dealing k frames, in order, to s steps
Splits(k, s) ==
    {a \in [1..k -> 1..s] : \A x \in 1..k : \A y \in 1..k : x <= y => a[x] <= a[y]}

\* the frames dealt to step j
FramesOfStep(fs, a, j) ==
    LET before == Cardinality({x \in DOMAIN a : a[x] < j})
        count  == Cardinality({x \in DOMAIN a : a[x] = j})
    IN  SubSeq(fs, before + 1, before + count)

\* odb.steps of databases with up to MaxSteps steps and MaxFrames frames
StepDatabases ==
    UNION {UNION {{[j \in 1..s |-> [name           |-> j,
                                    frames         |-> FramesOfStep(fs, a, j),
                                    historyRegions |-> h]] :
                      fs \in [1..k -> StepFrames], a \in Splits(k, s),
                      h \in HistoryRegions} :
                  k \in 0..MaxFrames} :
           s \in 0..MaxSteps}

\* frame.fieldOutputs of the frame of a one-frame database: any stress values,
\* with or without strain
FrameFieldOutputs ==
    {EmptyMap, [strain |-> <<[E11 |-> 1]>>]}
    \cup {[stress |-> v] : v \in SeqUpTo(FieldValues, MaxValues)}
    \cup {[stress |-> v, strain |-> <<[E11 |-> 0 - 2]>>] :
              v \in SeqUpTo(FieldValues, MaxValues)}

FrameDatabases ==
    {<<[name           |-> 1,
        frames         |-> <<[frameValue |-> 0, fieldOutputs |-> f]>>,
        historyRegions |-> EmptyMap]>> : f \in FrameFieldOutputs}

InitExtract ==
    /\ SweepIdle
    /\ ReduceIdle
    /\ BatchIdle
    /\ ODB_AVAILABLE \in BOOLEAN
    /\ odb \in StepDatabases \cup FrameDatabases
    /\ config \in Configs
    /\ ppc = "start"
    /\ odb_open = FALSE
    /\ field_data = <<>>
    /\ history_data = <<>>
    /\ pexc = NoExc
    /\ artifacts = {}
    /\ presults = NoPResults
    /\ stats = NoStats
    /\ previous = NoPResults

NextExtract ==
    \/ OpenOdb
    \/ ExtractFieldData
    \/ ExtractHistoryData
    \/ SaveResults
    \/ CreatePlots
    \/ GetSummaryStatistics
    \/ ProcessAgain

SpecExtract == InitExtract /\ [][NextExtract]_vars

-----------------------------------------------------------------------------
(* PostProcessingSystem.batch_process *)

\* results.append(None)
NoneEntry == [returned |-> FALSE]

\* a database of one step and one frame with the given stress values
OneFrameDatabase(values) ==
    <<[name           |-> 1,
       frames         |-> <<[frameValue |-> 0, fieldOutputs |-> [stress |-> values]]>>,
       historyRegions |-> EmptyMap]>>

\* the databases behind the paths of a batch: two that can be read and differ,
\* one whose stress field has no values
BatchDatabases ==
    {OneFrameDatabase(<<[S11 |-> 1]>>),
     OneFrameDatabase(<<[S11 |-> 3]>>),
     OneFrameDatabase(<<>>)}

\* the head of "for i, odb_file in enumerate(odb_files, 1)"
BatchLoopNext(k) == IF k <= Len(odb_files) THEN "process" ELSE "summary"

\* lines 516-523: os.makedirs(output_dir, exist_ok=True); results = []
BatchStart ==
    /\ bpc = "start"
    /\ \/ /\ batch_results' = <<>>
          /\ file_index' = 1
          /\ bpc' = BatchLoopNext(1)
       \/ /\ bpc' = "raised"
          /\ UNCHANGED <<batch_results, file_index>>
    /\ UNCHANGED <<odb_files, batch_summary>>
    /\ UNCHANGED <<sweepVars, postVars>>

\* line 530: result = self.process_odb_file(odb_file, file_output_dir) is entered
BatchCall ==
    /\ bpc = "process"
    /\ odb' = odb_files[file_index]
    /\ ppc' = "start"
    /\ field_data' = <<>>
    /\ history_data' = <<>>
    /\ pexc' = NoExc
    /\ presults' = NoPResults
    /\ bpc' = "in_call"
    /\ UNCHANGED <<ODB_AVAILABLE, config, odb_open, artifacts, stats, previous>>
    /\ UNCHANGED <<odb_files, file_index, batch_results, batch_summary>>
    /\ UNCHANGED <<sweepVars, reduceVars>>

\* line 531: results.append(result)
BatchAppend ==
    /\ bpc = "in_call"
    /\ ppc = "returned"
    /\ batch_results' = Append(batch_results, presults)
    /\ file_index' = file_index + 1
    /\ bpc' = BatchLoopNext(file_index + 1)
    /\ ppc' = "idle"
    /\ UNCHANGED <<ODB_AVAILABLE, odb, config, odb_open, field_data, history_data,
                   pexc, artifacts, presults, stats, previous>>
    /\ UNCHANGED <<odb_files, batch_summary>>
    /\ UNCHANGED <<sweepVars, reduceVars>>

\* an except branch that records nothing for the file
BatchExceptSilent ==
    /\ bpc = "in_call"
    /\ ppc = "raised"
    /\ file_index' = file_index + 1
    /\ bpc' = BatchLoopNext(file_index + 1)
    /\ ppc' = "idle"
    /\ UNCHANGED <<ODB_AVAILABLE, odb, config, odb_open, field_data, history_data,
                   pexc, artifacts, presults, stats, previous>>
    /\ UNCHANGED <<odb_files, batch_results, batch_summary>>
    /\ UNCHANGED <<sweepVars, reduceVars>>

\* lines 534-536: except Exception as e: results.append(None)
BatchExcept ==
    /\ bpc = "in_call"
    /\ ppc = "raised"
    /\ batch_results' = Append(batch_results, NoneEntry)
    /\ file_index' = file_index + 1
    /\ bpc' = BatchLoopNext(file_index + 1)
    /\ ppc' = "idle"
    /\ UNCHANGED <<ODB_AVAILABLE, odb, config, odb_open, field_data, history_data,
                   pexc, artifacts, presults, stats, previous>>
    /\ UNCHANGED <<odb_files, batch_summary>>
    /\ UNCHANGED <<sweepVars, reduceVars>>

IsNone(r) == r = NoneEntry

IsNotNone(r) == r # NoneEntry

\* lines 539-544 and 546-568: self._create_batch_summary(results, output_dir);
\* return results
CreateBatchSummary ==
    /\ bpc = "summary"
    /\ \/ /\ batch_summary' =
                [written |-> TRUE,
                 total   |-> Len(batch_results),
                 success |-> Len(SelectSeq(batch_results, IsNotNone)),
                 errors  |-> Len(SelectSeq(batch_results, IsNone))]
          /\ bpc' = "returned"
       \/ /\ bpc' = "raised"
          /\ UNCHANGED batch_summary
    /\ UNCHANGED <<odb_files, file_index, batch_results>>
    /\ UNCHANGED <<sweepVars, postVars>>

InitBatch ==
    /\ SweepIdle
    /\ ReduceIdle
    /\ ODB_AVAILABLE \in BOOLEAN
    /\ odb = <<>>
    /\ config = default_config
    /\ ppc = "idle"
    /\ odb_open = FALSE
    /\ field_data = <<>>
    /\ history_data = <<>>
    /\ pexc = NoExc
    /\ artifacts = {}
    /\ presults = NoPResults
    /\ stats = NoStats
    /\ previous = NoPResults
    /\ odb_files \in SeqUpTo(BatchDatabases, MaxFiles)
    /\ bpc = "start"
    /\ file_index = 0
    /\ batch_results = <<>>
    /\ batch_summary = NoReport

NextBatch ==
    \/ BatchStart
    \/ BatchCall
    \/ OpenOdb
    \/ ExtractFieldData
    \/ ExtractHistoryData
    \/ SaveResults
    \/ CreatePlots
    \/ BatchAppend
    \/ BatchExcept
    \/ CreateBatchSummary

SpecBatch == InitBatch /\ [][NextBatch]_vars

-----------------------------------------------------------------------------

(* Properties of the sweep and of analyze() *)

\* the caller's analysis.get(key): None when the key is missing
Get(a, key) == IF key \in DOMAIN a THEN a[key] ELSE None

CompletedOf(rs) == {k \in DOMAIN rs : rs[k].status = "completed"}

FracturedOf(rs) == {k \in CompletedOf(rs) : rs[k].fracture_occurred}

\* indices whose try block raised
RaisedIndices == {raised[n][1] : n \in DOMAIN raised}

\* C1: for a non-empty velocity list run_analysis returns exactly one record
\* per requested velocity, the k-th record carrying the k-th velocity.
C1_OneRecordPerVelocity ==
    (pc = "returned" /\ Len(velocities) > 0) =>
        /\ Len(results.results) = Len(velocities)
        /\ \A k \in DOMAIN velocities : results.results[k].velocity = velocities[k]

\* C2: a failing run never aborts the sweep: once the loop is over every
\* velocity's run has been started, in input order, and every exception raised
\* for a velocity is recorded as a failed record carrying its message; while
\* the loop runs, the runs started are exactly those up to the current index.
C2_FailureNeverAborts ==
    /\ pc \in {"report", "returned"} => runs_started = velocities
    /\ pc \in {"run_calculation", "extract_results", "save", "except"} =>
           runs_started = SubSeq(velocities, 1, i)
    /\ pc = "create_model" => runs_started = SubSeq(velocities, 1, i - 1)
    /\ \A n \in DOMAIN raised :
           (pc # "except" \/ n < Len(raised)) =>
               \E k \in DOMAIN analysis_results :
                   analysis_results[k] =
                       FailedRecord(velocities[raised[n][1]], raised[n][2])

\* C2 witness: the first of several velocities failed and the sweep returned
C2_Witness ==
    /\ pc = "returned"
    /\ Len(velocities) >= 2
    /\ Len(raised) >= 1
    /\ raised[1][1] = 1
    /\ Len(runs_started) = Len(velocities)
    /\ \E k \in DOMAIN analysis_results : analysis_results[k].status = "completed"

\* C3: with the backend unavailable run_analysis raises before anything is
\* started: no run, no job, no record, no directory, no document, no report
\* and no results object.
C3_UnavailableFailsFast ==
    ~ABAQUS_AVAILABLE =>
        /\ pc \in {"start", "raised"}
        /\ pc = "raised" => exc = RuntimeErrorMessage
        /\ runs_started = <<>>
        /\ jobs = <<>>
        /\ analysis_results = <<>>
        /\ ~output_dir
        /\ velocity_dirs = {}
        /\ documents = <<>>
        /\ summary_report = NoReport
        /\ results = NoResults
        /\ analysis = NoAnalysis

\* C3 witness: run_analysis was called without the backend and has raised
C3_Witness ==
    /\ ~ABAQUS_AVAILABLE
    /\ Len(velocities) > 0
    /\ pc = "raised"

\* C4: the critical velocity analyze() yields is defined exactly when some
\* completed record fractured; it is then the smallest velocity of the
\* fracturing records and one of the velocities of the results object.
C4_CriticalVelocity ==
    analysis.called =>
        LET rs == results.results
            F  == {rs[k].velocity : k \in FracturedOf(rs)}
            cv == Get(analysis, "critical_velocity")
        IN  /\ (cv # None) <=> (F # {})
            /\ cv # None =>
                   /\ cv \in F
                   /\ \A v \in F : cv <= v
                   /\ cv \in Range(results.velocities)

\* C4 witness: fracture at a velocity that is not the first to fracture, and a
\* lower velocity that did not fracture
C4_Witness ==
    /\ analysis.called
    /\ Get(analysis, "critical_velocity") # None
    /\ \E k \in FracturedOf(results.results) :
           /\ results.results[k].velocity > analysis.critical_velocity
           /\ \E n \in FracturedOf(results.results) :
                  n > k /\ results.results[n].velocity = analysis.critical_velocity

\* C5: with no completed record analyze() returns a summary whose critical
\* velocity is absent and whose three counts the caller can read.
C5_NoDataSummary ==
    (analysis.called /\ CompletedOf(results.results) = {}) =>
        /\ Get(analysis, "critical_velocity") = None
        /\ {"total_velocities", "successful_calculations", "failed_calculations"}
               \subseteq DOMAIN analysis

\* C6: with a completed record, analyze() reports the number of records as the
\* total, the number of completed records as the successes and the rest as
\* the failures, so that total = successes + failures.
C6_Counts ==
    (analysis.called /\ CompletedOf(results.results) # {}) =>
        /\ analysis.total_velocities = Len(results.results)
        /\ analysis.successful_calculations = Cardinality(CompletedOf(results.results))
        /\ analysis.failed_calculations =
               Len(results.results) - Cardinality(CompletedOf(results.results))
        /\ analysis.total_velocities =
               analysis.successful_calculations + analysis.failed_calculations

AboveThreshold(v) == v > FractureThreshold

NotAboveThreshold(v) == ~(v > FractureThreshold)

\* C7: when every run of the sweep completes, analyze() lists as fracturing
\* exactly the input velocities above 200 m/s, as not fracturing exactly the
\* others, and the critical velocity is the smallest input velocity above
\* 200 m/s (absent when there is none).
C7_ThresholdSweep ==
    (analysis.called /\ Len(raised) = 0) =>
        LET above == SelectSeq(velocities, AboveThreshold)
        IN  /\ analysis.fracture_velocities = above
            /\ analysis.no_fracture_velocities = SelectSeq(velocities, NotAboveThreshold)
            /\ analysis.critical_velocity \in Range(above) \cup {None}
            /\ \A v \in Range(above) : analysis.critical_velocity # None
                                       /\ analysis.critical_velocity <= v

\* C7 witness: 200.0, 200.5 and 250.0 m/s all completed; 200.5 is critical
C7_Witness ==
    /\ analysis.called
    /\ Len(raised) = 0
    /\ velocities = <<2000, 2500, 2005>>
    /\ analysis.critical_velocity = 2005
    /\ analysis.fracture_velocities = <<2500, 2005>>
    /\ analysis.no_fracture_velocities = <<2000>>

\* C8: when exactly one velocity's run fails, its record is failed and carries
\* the message, analyze() reports one failure, and the failed velocity is in
\* neither the fracture list nor the no-fracture list.
C8_SingleFailure ==
    (analysis.called /\ Len(raised) = 1) =>
        LET v == velocities[raised[1][1]]
        IN  /\ \E k \in DOMAIN results.results :
                   results.results[k] = FailedRecord(v, raised[1][2])
            /\ Get(analysis, "failed_calculations") = 1
            /\ "fracture_velocities" \in DOMAIN analysis
            /\ v \notin Range(analysis.fracture_velocities)
            /\ v \notin Range(analysis.no_fracture_velocities)

\* indices processed so far whose outcome was saved
SavedIndices == (1..(i - 1)) \ RaisedIndices

-----------------------------------------------------------------------------
(* Properties of the reduction *)

\* {max, min, mean} of s are the maximum, the minimum and the arithmetic
\* mean of vs, or all zero when vs is empty
ReducesTo(s, vs) ==
    IF Len(vs) = 0
    THEN s.max = 0 /\ s.min = 0 /\ s.mean = Fraction(0, 1)
    ELSE /\ s.max \in Range(vs) /\ \A v \in Range(vs) : v <= s.max
         /\ s.min \in Range(vs) /\ \A v \in Range(vs) : s.min <= v
         /\ s.mean.num * Len(vs) = Sum(vs) * s.mean.den

\* C10: whenever the requested component is carried by every raw value of the
\* field output (trivially so when there is none), the component's entry is
\* the reduction of its values, all zero for an empty list; a history
\* output's entry is the reduction of its values likewise.
C10_ReduceSamples ==
    /\ (/\ frame_component # NotExtracted
        /\ \A k \in DOMAIN field_output : component \in DOMAIN field_output[k]) =>
           /\ frame_component.kind = "sample"
           /\ ReducesTo(frame_component,
                        [k \in 1..Len(field_output) |-> field_output[k][component]])
    /\ history_series # NotExtracted =>
           ReducesTo(history_series,
                     [k \in 1..Len(history_output) |-> history_output[k].data])

-----------------------------------------------------------------------------
(* Properties of the extraction *)

\* the step of the database named name
RawStep(name) == odb[CHOOSE k \in DOMAIN odb : odb[k].name = name]

\* the frame of step behind the snapshot stored under frame value t: the last one
RawFrame(step, t) ==
    LET at == {k \in DOMAIN step.frames : step.frames[k].frameValue = t}
    IN  step.frames[CHOOSE k \in at : \A n \in at : n <= k]

\* config asks for component c of field type field_type
Requested(field_type, c) ==
    /\ field_type \in DictKeys(config.field_outputs)
    /\ c \in Range(DictGet(config.field_outputs, field_type))

\* the raw frame carries component c of field type field_type
Present(frame, field_type, c) ==
    /\ field_type \in DOMAIN frame.fieldOutputs
    /\ Len(frame.fieldOutputs[field_type]) > 0
    /\ \A k \in DOMAIN frame.fieldOutputs[field_type] :
           c \in DOMAIN frame.fieldOutputs[field_type][k]

\* the names a snapshot could hold samples under
AllComponents == ComponentNames \cup {"E11"}

\* the (step, frame) snapshots of the extraction: <<step index, frame index>>
Snapshots(fd) == {<<a, b>> \in (DOMAIN fd) \X (1..MaxFrames) : b \in DOMAIN fd[a].value}

\* C11: a frame snapshot holds a sample for (field type, component) exactly
\* when the field type is requested and present in the raw frame and the
\* component is requested and present in that field output; every other pair
\* is left out of the snapshot, and a sample holds the raw values
C11_SampleOnlyIfRequestedAndPresent ==
    \A p \in Snapshots(field_data) :
        LET step       == RawStep(field_data[p[1]].key)
            item       == field_data[p[1]].value[p[2]]
            frame      == RawFrame(step, item.key)
            frame_data == item.value
        IN  /\ \A field_type \in DOMAIN frame_data \ {"time"} :
                  /\ field_type \in DictKeys(config.field_outputs)
                  /\ field_type \in DOMAIN frame.fieldOutputs
                  /\ \A c \in DOMAIN frame_data[field_type] :
                         /\ Requested(field_type, c)
                         /\ Present(frame, field_type, c)
                         /\ frame_data[field_type][c].values =
                                [k \in DOMAIN frame.fieldOutputs[field_type] |->
                                    frame.fieldOutputs[field_type][k][c]]
            /\ \A field_type \in {"stress", "strain"} : \A c \in AllComponents :
                  Requested(field_type, c) /\ Present(frame, field_type, c)
                      => /\ field_type \in DOMAIN frame_data
                         /\ c \in DOMAIN frame_data[field_type]

\* a returned extraction with a snapshot that holds S11, leaves out the
\* requested but absent S22 and has no entry for the requested strain
C11_Witness ==
    /\ presults.returned
    /\ config = default_config
    /\ \E p \in Snapshots(presults.field_data) :
           LET frame_data == presults.field_data[p[1]].value[p[2]].value
           IN  /\ "stress" \in DOMAIN frame_data
               /\ DOMAIN frame_data["stress"] = {"S11"}
               /\ "strain" \notin DOMAIN frame_data

\* the greatest element of a non-empty set of numbers
Greatest(S) == CHOOSE m \in S : \A x \in S : x <= m

\* the true maximum of S, 0 for no samples
TrueMaximum(S) == IF S = {} THEN 0 ELSE Greatest(S)

\* C12: the overall maximum stress reported by get_summary_statistics is the
\* true maximum of the maxima of all stress samples of the extraction, also
\* when all of them are negative, and 0 when there is no stress sample; the
\* maximum strain likewise
C12_TrueMaximum ==
    stats.called =>
        /\ stats.max_stress =
               TrueMaximum(ComponentMaxima(presults.field_data, "stress"))
        /\ stats.max_strain =
               TrueMaximum(ComponentMaxima(presults.field_data, "strain"))

\* the <<step name, frame value>> pairs under which the extraction holds a snapshot
SnapshotKeys(fd) ==
    UNION {{<<fd[a].key, fd[a].value[b].key>> : b \in DOMAIN fd[a].value} : a \in DOMAIN fd}

\* C13: the summary's num_steps is the number of distinct steps of the
\* extraction and its total_frames is the sum of the frame counts of the steps
C13_StepAndFrameCounts ==
    stats.called =>
        /\ stats.num_steps = Cardinality(DictKeys(presults.field_data))
        /\ stats.total_frames = Cardinality(SnapshotKeys(presults.field_data))

\* a summary of an extraction of two steps that both hold frames
C13_Witness ==
    /\ stats.called
    /\ stats.num_steps = 2
    /\ stats.total_frames = 3
    /\ \A a \in DOMAIN presults.field_data : Len(presults.field_data[a].value) > 0

C17_ExportFailureKeepsExtraction ==
    ~(ppc = "raised" /\ pexc \in SaveErrors \cup PlotErrors)

-----------------------------------------------------------------------------
(* Properties of the parameters, the artifacts and the order of the sweep *)

\* C15: the parameters run_analysis works with, which the returned result
\* keeps, have the keys of the defaults and of the caller's parameters; every
\* key the caller supplied holds the caller's value as a whole and every other
\* key holds its default
C15_ParamsOverrideDefaults ==
    pc \notin {"start", "raised"} =>
        /\ DOMAIN default_params = DOMAIN DefaultParams \cup DOMAIN analysis_params
        /\ \A key \in DOMAIN default_params :
              default_params[key] = IF key \in DOMAIN analysis_params
                                    THEN analysis_params[key]
                                    ELSE DefaultParams[key]

\* a result returned for a caller who replaced the symmetry planes and the
\* element size and left the other keys alone
C15_Witness ==
    /\ results.returned
    /\ DOMAIN analysis_params = {"element_size", "symmetry_planes"}
    /\ default_params.symmetry_planes = <<"Z">>
    /\ default_params.element_size = 1000
    /\ default_params.time_period = 300

\* the results object as its constructor built it from the caller's arguments
Untouched == results = SpallFractureResults(velocities, analysis_results)

\* C16: when matplotlib or pandas cannot be imported, plot_velocity_analysis
\* and export_to_excel end as skipped, not with an exception, and the records,
\* velocities and parameters of the result are what they were, so that
\* analyze() called afterwards returns what it returns for the untouched result
C16_UnavailableCollaboratorSkipped ==
    /\ plot.called /\ ~plot.available =>
          /\ plot.outcome = "skipped"
          /\ Untouched
          /\ default_params = analysis_params
          /\ analysis.called =>
                analysis = analyze(SpallFractureResults(velocities, analysis_results))
    /\ excel.called /\ ~excel.available =>
          /\ excel.outcome = "skipped"
          /\ Untouched
          /\ default_params = analysis_params
          /\ analysis.called =>
                analysis = analyze(SpallFractureResults(velocities, analysis_results))

\* both methods were skipped on a result with a failed record, and analyze()
\* was called
C16_Witness ==
    /\ plot.called /\ ~plot.available
    /\ excel.called /\ ~excel.available
    /\ analysis.called
    /\ \E k \in DOMAIN results.results : results.results[k].status = "failed"
    /\ \E k \in DOMAIN results.results : results.results[k].status = "completed"

\* C18: the summary report has exactly one line per requested velocity, in
\* input order; the line of a completed velocity shows its velocity, maximum
\* stress and fracture yes/no, the line of a failed one its velocity and the
\* failure message
C18_OneReportLinePerVelocity ==
    summary_report.written =>
        /\ Len(summary_report.lines) = Len(velocities)
        /\ \A k \in DOMAIN summary_report.lines :
              LET line == summary_report.lines[k]
              IN  /\ k \in DOMAIN velocities
                  /\ line.velocity = velocities[k]
                  /\ \/ DOMAIN line = {"velocity", "max_stress", "fracture"}
                     \/ DOMAIN line = {"velocity", "error"}

\* C19: once run_analysis is past the availability check no failure reaches
\* the caller: with the backend available the call never ends by an exception
C19_NoFailurePropagates ==
    ABAQUS_AVAILABLE => pc # "raised"

\* velocities for which a record has been appended
Recorded == Range(VelocitiesOf(analysis_results))

\* C20: runs are started in input order, one at a time: when the run of a
\* velocity is started, every earlier velocity's run was started before it and
\* has its record appended, records exist only for started runs, and the
\* report is written only when every velocity's run was started and recorded
C20_StrictlySequential ==
    /\ Len(runs_started) <= Len(velocities)
    /\ runs_started = SubSeq(velocities, 1, Len(runs_started))
    /\ Len(analysis_results) >= Len(runs_started) - 1
    /\ \A k \in 1..(Len(runs_started) - 1) : velocities[k] \in Recorded
    /\ Recorded \subseteq Range(runs_started)
    /\ summary_report.written =>
          /\ runs_started = velocities
          /\ Len(analysis_results) >= Len(velocities)
          /\ \A k \in DOMAIN velocities : velocities[k] \in Recorded

\* a report written after a sweep of three different velocities, one of which failed
C20_Witness ==
    /\ summary_report.written
    /\ Len(velocities) = 3
    /\ Cardinality(Range(velocities)) = 3
    /\ \E k \in DOMAIN analysis_results : analysis_results[k].status = "failed"
    /\ \E k \in DOMAIN analysis_results : analysis_results[k].status = "completed"

-----------------------------------------------------------------------------
(* Properties of analyze(): the two velocity lists and the stress range *)

\* the velocities of the records at the indices I, in record order
RECURSIVE VelocitiesAt(_, _, _)
VelocitiesAt(rs, I, k) ==
    IF k > Len(rs) THEN <<>>
    ELSE (IF k \in I THEN <<rs[k].velocity>> ELSE <<>>) \o VelocitiesAt(rs, I, k + 1)

C22_StressRange ==
    (analysis.called /\ CompletedOf(results.results) # {}) =>
        LET rs == results.results
            S  == {rs[k].max_stress : k \in CompletedOf(rs)}
            lo == analysis.max_stress_range.min
            hi == analysis.max_stress_range.max
        IN  /\ lo \in S /\ \A s \in S : lo <= s
            /\ hi \in S /\ \A s \in S : s <= hi
            /\ lo <= hi

\* a stress range whose ends differ and are not both at the first completed
\* record, computed next to a failed record
C22_Witness ==
    /\ analysis.called
    /\ CompletedOf(results.results) # {}
    /\ analysis.max_stress_range.min < analysis.max_stress_range.max
    /\ \E k \in DOMAIN results.results : results.results[k].status = "failed"
    /\ results.results[1].status = "failed"

-----------------------------------------------------------------------------
(* Properties of the records, the documents and the job names of the sweep *)

\* C26: no position of the velocity list ever has both a completed and a
\* failed record: at any time there are no more records than runs started,
\* also after the save of a completed outcome has failed
C26_NeverBothRecords ==
    Len(analysis_results) <= Len(runs_started)

\* C27: two different requested velocities never share a job name or a
\* document: their job names and directories differ, and once the sweep has
\* returned the document of every velocity whose save succeeded still holds
\* that velocity's own record
C27_NoSharedLocation ==
    /\ \A j \in DOMAIN runs_started : \A k \in DOMAIN runs_started :
          runs_started[j] # runs_started[k] =>
              /\ JobName(runs_started[j]) # JobName(runs_started[k])
              /\ VelocityDir(runs_started[j]) # VelocityDir(runs_started[k])
    /\ pc = "returned" =>
          \A k \in SavedIndices :
              /\ VelocityDir(velocities[k]) \in DOMAIN documents
              /\ documents[VelocityDir(velocities[k])].velocity = velocities[k]

MetricFields == {"max_stress", "max_strain", "fracture_time", "fracture_occurred"}

\* a record as the sweep may produce it
WellFormedRecord(r) ==
    /\ {"velocity", "status"} \subseteq DOMAIN r
    /\ r.status \in {"completed", "failed"}
    /\ r.status = "completed" =>
          MetricFields \subseteq DOMAIN r /\ "error" \notin DOMAIN r
    /\ r.status = "failed" =>
          "error" \in DOMAIN r /\ MetricFields \cap DOMAIN r = {}

\* C23: every record run_analysis produces has a velocity and the status
\* completed or failed; a completed record has the four metrics and no error
\* message, a failed record an error message and none of the metrics
C23_RecordFields ==
    /\ \A k \in DOMAIN analysis_results : WellFormedRecord(analysis_results[k])
    /\ results.returned =>
          \A k \in DOMAIN results.results : WellFormedRecord(results.results[k])

\* a returned result with a completed and a failed record
C23_Witness ==
    /\ results.returned
    /\ \E k \in DOMAIN results.results : results.results[k].status = "completed"
    /\ \E k \in DOMAIN results.results : results.results[k].status = "failed"

-----------------------------------------------------------------------------
(* Properties of the timelines, of missing data and of the open database *)

\* the keys of a dict in its order
KeysInOrder(d) == [k \in DOMAIN d |-> d[k].key]

\* C24: in the extraction the frames of every step are in ascending order of
\* frame time, whatever the order of the raw frames, and the steps are in the
\* order in which the database lists them
C24_TimelineOrdered ==
    ppc \in {"extract_history_data", "save_results", "create_plots", "returned"} =>
        /\ KeysInOrder(field_data) = [k \in DOMAIN odb |-> odb[k].name]
        /\ \A a \in DOMAIN field_data :
              LET times == KeysInOrder(field_data[a].value)
              IN  \A x \in DOMAIN times : \A y \in DOMAIN times :
                      x < y => times[x] < times[y]

\* C25: the extraction never ends with an error for data that is missing from
\* the database: a requested field type, component or history output that is
\* absent, a field output without values and a component that only some values
\* carry all leave their entry out and the extraction goes on
C25_MissingDataIsNoError ==
    ~(ppc = "raised" /\ pexc \in {"IndexError", "KeyError"})

\* the frames of all steps of the database
RECURSIVE RawFrameCount(_)
RawFrameCount(steps) ==
    IF Len(steps) = 0 THEN 0 ELSE Len(steps[1].frames) + RawFrameCount(Tail(steps))

\* C28: the extraction holds as many snapshots for a step as the raw step has
\* frames, also when two frames of the step have the same frame time, and
\* total_frames is the number of raw frames of the database
C28_EveryFrameStored ==
    /\ ppc \in {"extract_history_data", "save_results", "create_plots", "returned"} =>
          /\ Len(field_data) = Len(odb)
          /\ \A a \in DOMAIN field_data :
                Len(field_data[a].value) = Len(RawStep(field_data[a].key).frames)
    /\ stats.called => stats.total_frames = RawFrameCount(odb)

\* C29: when process_odb_file has ended, by returning the results or by
\* raising, the database it opened is closed
C29_OdbClosedAtEnd ==
    ppc \in {"returned", "raised"} => ~odb_open

-----------------------------------------------------------------------------
(* Properties of batch_process *)

\* what process_odb_file returns for database o when nothing fails
ResultsOf(o) ==
    PostProcessingResults(_extract_field_data(o, config).value,
                          _extract_history_data(o, config), config)

\* the entry of file k is None or the results of file k
EntryOfFile(k) ==
    \/ batch_results[k] = NoneEntry
    \/ /\ ~IsRaised(_extract_field_data(odb_files[k], config))
       /\ batch_results[k] = ResultsOf(odb_files[k])

\* C30: batch_process returns one entry per input file, in input order, the
\* entry of a file being its results or None; a file that fails gets None and
\* the files after it are still processed; the summary's success count plus
\* its error count is the number of input files
C30_OneEntryPerFile ==
    /\ \A k \in DOMAIN batch_results : k \in DOMAIN odb_files /\ EntryOfFile(k)
    /\ \A k \in DOMAIN batch_results :
          (~ODB_AVAILABLE \/ IsRaised(_extract_field_data(odb_files[k], config)))
              => batch_results[k] = NoneEntry
    /\ bpc \in {"process", "in_call"} => Len(batch_results) = file_index - 1
    /\ bpc \in {"summary", "returned"} => Len(batch_results) = Len(odb_files)
    /\ batch_summary.written =>
          /\ batch_summary.success + batch_summary.errors = Len(odb_files)
          /\ batch_summary.total = Len(odb_files)
          /\ batch_summary.success =
                Cardinality({k \in DOMAIN batch_results : batch_results[k] # NoneEntry})

\* a returned batch whose first file failed and whose last file has its results
C30_Witness ==
    /\ bpc = "returned"
    /\ Len(odb_files) = 2
    /\ batch_results[1] = NoneEntry
    /\ batch_results[2] # NoneEntry
    /\ batch_summary.written
    /\ batch_summary.errors = 1

====
